---- MODULE Spec2Model ----
(***************************************************************************)
(* Model of the tick infrastructure of the repository:                     *)
(*   - MiniTimerOne (Progetto-01/led_to_bag/MiniTimerOne.cpp): the 16 bit   *)
(*     Timer1 of the ATmega328P, its period configuration and its          *)
(*     compare-match interrupt;                                            *)
(*   - Scheduler (Progetto-03/.../smart_dumpster/Scheduler.cpp): the        *)
(*     cooperative multi-rate scheduler.                                   *)
(* The two classes belong to two different sketches; each has its own      *)
(* specification (TimerSpec, SchedSpec) over its own variables.            *)
(***************************************************************************)
EXTENDS Integers, Sequences, FiniteSets

VARIABLES
    \* ---- MiniTimerOne and the Timer1 hardware
    clockSelectBits,  \* this->_clockSelectBits
    isrCallback,      \* this->_isrCallback
    TCCR1A,           \* Timer1 control register A
    TCCR1B,           \* Timer1 control register B (mode and clock source)
    TIMSK1,           \* Timer1 interrupt mask register
    TCNT1,            \* Timer1 counter (16 bit)
    OCR1A,            \* Timer1 compare register (16 bit)
    SREG_I,           \* global interrupt enable bit of the status register
    lastPeriod,       \* history: argument of the last setPeriod call, or NoPeriod
    lastCall,         \* history: the last call and, for init/setPeriod/reset, SREG_I on entry
    ocrAssigned,      \* history: the unsigned long value last assigned to OCR1A
    isrRan,           \* history: callback run by the last compare-match interrupt
    pc,               \* the statement of MiniTimerOne the main program is about to execute
    pendingIsr,       \* the callback attachInterrupt / detachInterrupt is storing
    wrHalf,           \* the two-byte location whose first byte only has been written
    isrSawHalf,       \* history: wrHalf when the last compare-match interrupt ran
    \* ---- Scheduler, its tasks and its Timer
    initialized,      \* Scheduler::init has been called
    basePeriod,       \* Scheduler::basePeriod
    nTasks,           \* Scheduler::nTasks
    taskList,         \* Scheduler::taskList[0 .. nTasks-1], 1-based here
    timerFlag,        \* Timer: a base tick was signalled and not yet consumed
    ticks,            \* history: base ticks signalled by the Timer since init
    pass,             \* history: schedule() passes completed since init
    passLog,          \* history: the calls made on tasks by the last pass
    addResult,        \* history: the last Scheduler method called and what it returned
    rejected,         \* history: the task object last refused by addTask
    lateAdds          \* history: addTask calls made after a first pass

stepVars == <<pc, pendingIsr, wrHalf>>
timerVars == <<clockSelectBits, isrCallback, TCCR1A, TCCR1B, TIMSK1, TCNT1, OCR1A,
               SREG_I, lastPeriod, lastCall, ocrAssigned, isrRan, stepVars, isrSawHalf>>
schedVars == <<initialized, basePeriod, nTasks, taskList, timerFlag, ticks, pass, passLog,
               addResult, rejected, lateAdds>>
vars == <<timerVars, schedVars>>

(***************************************************************************)
(* Bounds of the model.                                                    *)
(***************************************************************************)
PeriodSlack == 1    \* periods are taken within this distance of each boundary
MaxCount == 1       \* the counter is followed up to this value
MaxPasses == 9      \* schedule() passes followed after an init
MaxSlowTasks == 1   \* registered tasks with a period other than 1000
MaxLateAdds == 1    \* addTask calls after the first pass
MaxLiveTasks == 3   \* tasks registered in the run checked for progress

(***************************************************************************)
(* Machine arithmetic.  unsigned long is 32 bits wide on the target; a     *)
(* value is kept as its two 16 bit halves, so that the wrap-around of the  *)
(* code's arithmetic is computed exactly.                                  *)
(***************************************************************************)
Word == 2^16

UL(h, l) == [hi |-> h, lo |-> l]

\* (unsigned long) c * x, modulo 2^32, for an int 0 <= c <= 1024
ULMulSmall(c, x) ==
    LET l == c * x.lo
        h == c * x.hi + (l \div Word)
    IN  UL(h % Word, l % Word)

\* variant of ULLess: the comparison written <= instead of <
ULLessOrEqual(x, y) == x.hi < y.hi \/ (x.hi = y.hi /\ x.lo <= y.lo)

\* x < y on unsigned long
ULLess(x, y) == x.hi < y.hi \/ (x.hi = y.hi /\ x.lo < y.lo)

\* x / d on unsigned long, for an int 1 <= d <= 1024
ULDivSmall(x, d) ==
    UL(x.hi \div d, (((x.hi % d) * Word) + x.lo) \div d)

\* x - 1 on unsigned long, modulo 2^32
ULPred(x) ==
    IF x.lo > 0 THEN UL(x.hi, x.lo - 1)
    ELSE UL((x.hi + Word - 1) % Word, Word - 1)

\* conversion of an unsigned long to a 16 bit register
Trunc16(x) == x.lo

RECURSIVE BitOr(_, _)
BitOr(a, b) ==
    IF a = 0 THEN b
    ELSE IF b = 0 THEN a
    ELSE (IF a % 2 = 1 \/ b % 2 = 1 THEN 1 ELSE 0) + 2 * BitOr(a \div 2, b \div 2)

(***************************************************************************)
(* Constants of MiniTimerOne.cpp and of the ATmega328P registers.          *)
(***************************************************************************)
TIMER1_MAX_VALUE == UL(1, 0)      \* 65536UL
CYCLES_PER_MICROSEC == 16

CS10 == 0
CS11 == 1
CS12 == 2
WGM12 == 3
OCIE1A == 1
BV(bit) == 2^bit

emptyCallback == "emptyCallback"
UserCallbacks == {"isrA", "isrB"}
NoPeriod == [hi |-> -1, lo |-> -1]    \* no setPeriod call yet

prescalerValues == <<1, 8, 64, 256, 1024>>
csBitsValues == <<BV(CS10), BV(CS11), BitOr(BV(CS11), BV(CS10)), BV(CS12),
                  BitOr(BV(CS12), BV(CS10))>>

(***************************************************************************)
(* The periods handed to setPeriod: every unsigned long within PeriodSlack *)
(* of a value at which the behaviour of setPeriod changes (a prescaler     *)
(* limit 4096 * p, the first period whose cycle count wraps, the ends of   *)
(* the type).                                                              *)
(***************************************************************************)
PeriodLandmarks ==
    { UL(0, 0), UL(0, 4096), UL(0, 32768), UL(4, 0), UL(16, 0), UL(64, 0),
      UL(4096, 0), UL(4096, 4096), UL(4160, 0), UL(Word - 1, Word - 1) }

ULOffset(x, d) ==
    LET l == x.lo + d
    IN  IF l < 0 THEN UL(x.hi - 1, l + Word)
        ELSE IF l >= Word THEN UL(x.hi + 1, l - Word)
        ELSE UL(x.hi, l)

Periods ==
    { q \in { ULOffset(b, d) : b \in PeriodLandmarks, d \in (-PeriodSlack)..PeriodSlack } :
        q.hi \in 0..(Word - 1) }

(***************************************************************************)
(* MiniTimerOne::setPeriod, lines 36-67.                                   *)
(***************************************************************************)
\* line 37: const unsigned long int cycles = CYCLES_PER_MICROSEC * period;
Cycles(period) == ULMulSmall(CYCLES_PER_MICROSEC, period)

\* variant of ClampedConfig: the "- 1" of line 64 forgotten
ClampedConfig_NoMinusOne ==
    [cs |-> BitOr(BV(CS12), BV(CS10)), ocr |-> TIMER1_MAX_VALUE]

\* lines 61-66: no prescaler fits
ClampedConfig ==
    [cs |-> BitOr(BV(CS12), BV(CS10)), ocr |-> ULPred(TIMER1_MAX_VALUE)]

\* lines 42-56: the scan of the prescaler table from index i (1-based), the
\* first match wins; the result is what is stored in _clockSelectBits and the
\* unsigned long value assigned to OCR1A
RECURSIVE ScanPrescalers(_, _)
ScanPrescalers(cycles, i) ==
    IF i > Len(prescalerValues) THEN ClampedConfig
    ELSE IF ULLess(cycles, ULMulSmall(prescalerValues[i], TIMER1_MAX_VALUE))
         THEN [cs |-> csBitsValues[i], ocr |-> ULDivSmall(cycles, prescalerValues[i])]
         ELSE ScanPrescalers(cycles, i + 1)

\* variant of SetPeriodConfig: the scan starts at the second table entry
SetPeriodConfig_SkipsFirst(period) == ScanPrescalers(Cycles(period), 2)

SetPeriodConfig(period) == ScanPrescalers(Cycles(period), 1)

\* variant of SregAfterCritical: the status register saved and restored
SregRestored(entry) == entry

\* cli(); <register write>; sei();  : the interrupt enable bit on exit, given
\* the bit on entry
SregAfterCritical(entry) == TRUE

\* history of the calls: a method with a critical section is recorded with
\* the interrupt enable bit it was entered with, any other call as OtherCall
Called(op) == [op |-> op, entryI |-> SREG_I]

OtherCall == [op |-> "other", entryI |-> FALSE]

(***************************************************************************)
(* The methods of MiniTimerOne.                                            *)
(***************************************************************************)
MiniTimerOne_init ==
    /\ TCCR1B' = BV(WGM12)
    /\ TCCR1A' = 0
    /\ TIMSK1' = 0
    /\ TCNT1' = 0
    /\ SREG_I' = SregAfterCritical(SREG_I)
    /\ lastCall' = Called("init")
    /\ UNCHANGED <<clockSelectBits, isrCallback, OCR1A, lastPeriod, ocrAssigned, isrRan>>
    /\ UNCHANGED <<stepVars, isrSawHalf>>
    /\ UNCHANGED schedVars

\* variant of setPeriod: the new clock-select bits also loaded in TCCR1B
setPeriod_LoadsClockSource(period) ==
    /\ clockSelectBits' = SetPeriodConfig(period).cs
    /\ TCCR1B' = BitOr(BV(WGM12), SetPeriodConfig(period).cs)
    /\ OCR1A' = Trunc16(SetPeriodConfig(period).ocr)
    /\ ocrAssigned' = SetPeriodConfig(period).ocr
    /\ SREG_I' = SregAfterCritical(SREG_I)
    /\ lastPeriod' = period
    /\ lastCall' = Called("setPeriod")
    /\ UNCHANGED <<isrCallback, TCCR1A, TIMSK1, TCNT1, isrRan>>
    /\ UNCHANGED <<stepVars, isrSawHalf>>
    /\ UNCHANGED schedVars

setPeriod(period) ==
    /\ clockSelectBits' = SetPeriodConfig(period).cs
    /\ OCR1A' = Trunc16(SetPeriodConfig(period).ocr)
    /\ ocrAssigned' = SetPeriodConfig(period).ocr
    /\ SREG_I' = SregAfterCritical(SREG_I)
    /\ lastPeriod' = period
    /\ lastCall' = Called("setPeriod")
    /\ UNCHANGED <<isrCallback, TCCR1A, TCCR1B, TIMSK1, TCNT1, isrRan>>
    /\ UNCHANGED <<stepVars, isrSawHalf>>
    /\ UNCHANGED schedVars

\* variant of attachInterrupt: the interrupt enable bit toggled instead of set
attachInterrupt_Toggles(isr) ==
    /\ isrCallback' = isr
    /\ TIMSK1' = (IF (TIMSK1 \div BV(OCIE1A)) % 2 = 1 THEN TIMSK1 - BV(OCIE1A)
                  ELSE TIMSK1 + BV(OCIE1A))
    /\ lastCall' = OtherCall
    /\ UNCHANGED <<clockSelectBits, TCCR1A, TCCR1B, TCNT1, OCR1A, SREG_I, lastPeriod,
                   ocrAssigned, isrRan>>
    /\ UNCHANGED <<stepVars, isrSawHalf>>
    /\ UNCHANGED schedVars

attachInterrupt(isr) ==
    /\ isrCallback' = isr
    /\ TIMSK1' = BitOr(TIMSK1, BV(OCIE1A))
    /\ lastCall' = OtherCall
    /\ UNCHANGED <<clockSelectBits, TCCR1A, TCCR1B, TCNT1, OCR1A, SREG_I, lastPeriod,
                   ocrAssigned, isrRan>>
    /\ UNCHANGED <<stepVars, isrSawHalf>>
    /\ UNCHANGED schedVars

detachInterrupt ==
    /\ TIMSK1' = 0
    /\ isrCallback' = emptyCallback
    /\ lastCall' = OtherCall
    /\ UNCHANGED <<clockSelectBits, TCCR1A, TCCR1B, TCNT1, OCR1A, SREG_I, lastPeriod,
                   ocrAssigned, isrRan>>
    /\ UNCHANGED <<stepVars, isrSawHalf>>
    /\ UNCHANGED schedVars

start ==
    /\ TCCR1B' = BitOr(TCCR1B, clockSelectBits)
    /\ lastCall' = OtherCall
    /\ UNCHANGED <<clockSelectBits, isrCallback, TCCR1A, TIMSK1, TCNT1, OCR1A, SREG_I,
                   lastPeriod, ocrAssigned, isrRan>>
    /\ UNCHANGED <<stepVars, isrSawHalf>>
    /\ UNCHANGED schedVars

stop ==
    /\ TCCR1B' = BV(WGM12)
    /\ lastCall' = OtherCall
    /\ UNCHANGED <<clockSelectBits, isrCallback, TCCR1A, TIMSK1, TCNT1, OCR1A, SREG_I,
                   lastPeriod, ocrAssigned, isrRan>>
    /\ UNCHANGED <<stepVars, isrSawHalf>>
    /\ UNCHANGED schedVars

reset ==
    /\ TCNT1' = 0
    /\ SREG_I' = SregAfterCritical(SREG_I)
    /\ lastCall' = Called("reset")
    /\ UNCHANGED <<clockSelectBits, isrCallback, TCCR1A, TCCR1B, TIMSK1, OCR1A,
                   lastPeriod, ocrAssigned, isrRan>>
    /\ UNCHANGED <<stepVars, isrSawHalf>>
    /\ UNCHANGED schedVars

(***************************************************************************)
(* The surroundings of MiniTimerOne: the code that calls it may disable or *)
(* enable the interrupts, the counter counts while a clock source is       *)
(* selected, and a compare match raises TIMER1_COMPA_vect.                 *)
(***************************************************************************)
TimerRunning == TCCR1B % 8 # 0

CompareIrqEnabled == (TIMSK1 \div BV(OCIE1A)) % 2 = 1

CallerCli ==
    /\ SREG_I
    /\ SREG_I' = FALSE
    /\ lastCall' = OtherCall
    /\ UNCHANGED <<clockSelectBits, isrCallback, TCCR1A, TCCR1B, TIMSK1, TCNT1, OCR1A,
                   lastPeriod, ocrAssigned, isrRan>>
    /\ UNCHANGED <<stepVars, isrSawHalf>>
    /\ UNCHANGED schedVars

CallerSei ==
    /\ ~SREG_I
    /\ SREG_I' = TRUE
    /\ lastCall' = OtherCall
    /\ UNCHANGED <<clockSelectBits, isrCallback, TCCR1A, TCCR1B, TIMSK1, TCNT1, OCR1A,
                   lastPeriod, ocrAssigned, isrRan>>
    /\ UNCHANGED <<stepVars, isrSawHalf>>
    /\ UNCHANGED schedVars

\* the counter, in CTC mode: cleared on reaching OCR1A
Timer1Count ==
    /\ TimerRunning
    /\ TCNT1 >= OCR1A \/ TCNT1 < MaxCount
    /\ TCNT1' = (IF TCNT1 >= OCR1A THEN 0 ELSE TCNT1 + 1)
    /\ TCNT1' # TCNT1
    /\ UNCHANGED <<clockSelectBits, isrCallback, TCCR1A, TCCR1B, TIMSK1, OCR1A, SREG_I,
                   lastPeriod, lastCall, ocrAssigned, isrRan>>
    /\ UNCHANGED <<stepVars, isrSawHalf>>
    /\ UNCHANGED schedVars

\* lines 93-95
getCallback == isrCallback

\* lines 104-106: ISR(TIMER1_COMPA_vect) { (MiniTimer1.getCallback())(); }
TIMER1_COMPA_vect ==
    /\ TimerRunning
    /\ CompareIrqEnabled
    /\ SREG_I
    /\ isrRan' = getCallback
    /\ isrSawHalf' = wrHalf
    /\ <<isrRan, isrSawHalf>>' # <<isrRan, isrSawHalf>>
    /\ UNCHANGED <<clockSelectBits, isrCallback, TCCR1A, TCCR1B, TIMSK1, TCNT1, OCR1A,
                   SREG_I, lastPeriod, lastCall, ocrAssigned>>
    /\ UNCHANGED stepVars
    /\ UNCHANGED schedVars

TimerInit ==
    /\ clockSelectBits = 0
    /\ isrCallback = emptyCallback
    /\ TCCR1A = 0
    /\ TCCR1B = 0
    /\ TIMSK1 = 0
    /\ TCNT1 = 0
    /\ OCR1A = 0
    /\ SREG_I = TRUE
    /\ lastPeriod = NoPeriod
    /\ lastCall = OtherCall
    /\ ocrAssigned = UL(0, 0)
    /\ isrRan = "none"
    /\ pc = "idle"
    /\ pendingIsr = emptyCallback
    /\ wrHalf = "none"
    /\ isrSawHalf = "none"

TimerNext ==
    \/ MiniTimerOne_init
    \/ \E period \in Periods : setPeriod(period)
    \/ \E isr \in UserCallbacks : attachInterrupt(isr)
    \/ detachInterrupt
    \/ start
    \/ stop
    \/ reset
    \/ CallerCli
    \/ CallerSei
    \/ Timer1Count
    \/ TIMER1_COMPA_vect


(***************************************************************************)
(* MiniTimerOne statement by statement.  pc names the line of              *)
(* MiniTimerOne.cpp the main program is about to execute ("idle" between   *)
(* two calls); the compare-match interrupt may be taken between any two    *)
(* steps.  The ATmega328P moves one byte at a time: a 16 bit register is   *)
(* written high byte first, and a function pointer (two bytes of SRAM) is  *)
(* stored by two instructions.                                             *)
(***************************************************************************)
\* periods of the calls of setPeriod made step by step: one that the scan
\* of the table serves and one beyond every prescaler
StepPeriods == {UL(0, 4095), UL(4160, 0)}

\* the statement that follows each statement of a method
NextLine ==
    [L28 |-> "L29", L29 |-> "L30", L30 |-> "L31", L31 |-> "L32", L32 |-> "L33",
     L33 |-> "idle",
     L37 |-> "L51", L51 |-> "L52", L52 |-> "L53", L53 |-> "idle",
     L70 |-> "L71", L71 |-> "idle",
     L75 |-> "L76", L76 |-> "idle",
     L88 |-> "L89", L89 |-> "L90", L90 |-> "idle"]

\* lines 31, 51 (and 63), 88: cli();
CliLines == {"L31", "L51", "L88"}

\* lines 32, 52 (and 64), 89: the write of a 16 bit register
WriteLines == {"L32", "L52", "L89"}

\* lines 33, 53 (and 65), 90: sei();
SeiLines == {"L33", "L53", "L90"}

\* lines 70 and 76: the store of this->_isrCallback
StoreLines == {"L70", "L76"}

\* the register written by each line of WriteLines
WrittenAt == [L32 |-> "TCNT1", L52 |-> "OCR1A", L89 |-> "TCNT1"]

\* variant of SregAfterCli: the cli() left out
SregAfterCli_Skipped(entry) == entry

\* cli(): the interrupt enable bit after it, given the bit before it
SregAfterCli(entry) == FALSE

\* what _isrCallback reads as when one byte of the new pointer has been
\* stored over the old one: the old or the new pointer if they share the
\* other byte, else the address of neither
TornCallback == "torn"

HalfStored(old, new) == IF old = new THEN {old} ELSE {old, new, TornCallback}

Call_init ==
    /\ pc = "idle"
    /\ pc' = "L28"
    /\ lastCall' = Called("init")
    /\ UNCHANGED <<clockSelectBits, isrCallback, TCCR1A, TCCR1B, TIMSK1, TCNT1, OCR1A,
                   SREG_I, lastPeriod, ocrAssigned, isrRan, pendingIsr, wrHalf, isrSawHalf>>
    /\ UNCHANGED schedVars

Call_setPeriod(period) ==
    /\ pc = "idle"
    /\ pc' = "L37"
    /\ lastPeriod' = period
    /\ lastCall' = Called("setPeriod")
    /\ UNCHANGED <<clockSelectBits, isrCallback, TCCR1A, TCCR1B, TIMSK1, TCNT1, OCR1A,
                   SREG_I, ocrAssigned, isrRan, pendingIsr, wrHalf, isrSawHalf>>
    /\ UNCHANGED schedVars

Call_reset ==
    /\ pc = "idle"
    /\ pc' = "L88"
    /\ lastCall' = Called("reset")
    /\ UNCHANGED <<clockSelectBits, isrCallback, TCCR1A, TCCR1B, TIMSK1, TCNT1, OCR1A,
                   SREG_I, lastPeriod, ocrAssigned, isrRan, pendingIsr, wrHalf, isrSawHalf>>
    /\ UNCHANGED schedVars

Call_attachInterrupt(isr) ==
    /\ pc = "idle"
    /\ pc' = "L70"
    /\ pendingIsr' = isr
    /\ lastCall' = OtherCall
    /\ UNCHANGED <<clockSelectBits, isrCallback, TCCR1A, TCCR1B, TIMSK1, TCNT1, OCR1A,
                   SREG_I, lastPeriod, ocrAssigned, isrRan, wrHalf, isrSawHalf>>
    /\ UNCHANGED schedVars

Call_detachInterrupt ==
    /\ pc = "idle"
    /\ pc' = "L75"
    /\ pendingIsr' = emptyCallback
    /\ lastCall' = OtherCall
    /\ UNCHANGED <<clockSelectBits, isrCallback, TCCR1A, TCCR1B, TIMSK1, TCNT1, OCR1A,
                   SREG_I, lastPeriod, ocrAssigned, isrRan, wrHalf, isrSawHalf>>
    /\ UNCHANGED schedVars

\* line 28: TCCR1B = _BV(WGM12);
Line28 ==
    /\ pc = "L28"
    /\ TCCR1B' = BV(WGM12)
    /\ pc' = NextLine[pc]
    /\ UNCHANGED <<clockSelectBits, isrCallback, TCCR1A, TIMSK1, TCNT1, OCR1A, SREG_I,
                   lastPeriod, lastCall, ocrAssigned, isrRan, pendingIsr, wrHalf, isrSawHalf>>
    /\ UNCHANGED schedVars

\* line 29: TCCR1A = 0;
Line29 ==
    /\ pc = "L29"
    /\ TCCR1A' = 0
    /\ pc' = NextLine[pc]
    /\ UNCHANGED <<clockSelectBits, isrCallback, TCCR1B, TIMSK1, TCNT1, OCR1A, SREG_I,
                   lastPeriod, lastCall, ocrAssigned, isrRan, pendingIsr, wrHalf, isrSawHalf>>
    /\ UNCHANGED schedVars

\* line 30: TIMSK1 = 0;  and line 75, the same statement in detachInterrupt
Line30_75 ==
    /\ pc \in {"L30", "L75"}
    /\ TIMSK1' = 0
    /\ pc' = NextLine[pc]
    /\ UNCHANGED <<clockSelectBits, isrCallback, TCCR1A, TCCR1B, TCNT1, OCR1A, SREG_I,
                   lastPeriod, lastCall, ocrAssigned, isrRan, pendingIsr, wrHalf, isrSawHalf>>
    /\ UNCHANGED schedVars

\* lines 37-50 (or 37-62): the prescaler is chosen and stored
Line37 ==
    /\ pc = "L37"
    /\ clockSelectBits' = SetPeriodConfig(lastPeriod).cs
    /\ pc' = NextLine[pc]
    /\ UNCHANGED <<isrCallback, TCCR1A, TCCR1B, TIMSK1, TCNT1, OCR1A, SREG_I,
                   lastPeriod, lastCall, ocrAssigned, isrRan, pendingIsr, wrHalf, isrSawHalf>>
    /\ UNCHANGED schedVars

StepCli ==
    /\ pc \in CliLines
    /\ SREG_I' = SregAfterCli(SREG_I)
    /\ pc' = NextLine[pc]
    /\ UNCHANGED <<clockSelectBits, isrCallback, TCCR1A, TCCR1B, TIMSK1, TCNT1, OCR1A,
                   lastPeriod, lastCall, ocrAssigned, isrRan, pendingIsr, wrHalf, isrSawHalf>>
    /\ UNCHANGED schedVars

\* the high byte of the value goes to the TEMP register of Timer1
WriteHighByte ==
    /\ pc \in WriteLines
    /\ wrHalf = "none"
    /\ wrHalf' = WrittenAt[pc]
    /\ UNCHANGED <<clockSelectBits, isrCallback, TCCR1A, TCCR1B, TIMSK1, TCNT1, OCR1A, SREG_I,
                   lastPeriod, lastCall, ocrAssigned, isrRan, pc, pendingIsr, isrSawHalf>>
    /\ UNCHANGED schedVars

\* the low byte is written and the 16 bit register takes the value
WriteLowByte ==
    /\ pc \in WriteLines
    /\ wrHalf = WrittenAt[pc]
    /\ IF wrHalf = "OCR1A"
       THEN /\ OCR1A' = Trunc16(SetPeriodConfig(lastPeriod).ocr)
            /\ ocrAssigned' = SetPeriodConfig(lastPeriod).ocr
            /\ UNCHANGED TCNT1
       ELSE /\ TCNT1' = 0
            /\ UNCHANGED <<OCR1A, ocrAssigned>>
    /\ wrHalf' = "none"
    /\ pc' = NextLine[pc]
    /\ UNCHANGED <<clockSelectBits, isrCallback, TCCR1A, TCCR1B, TIMSK1, SREG_I,
                   lastPeriod, lastCall, isrRan, pendingIsr, isrSawHalf>>
    /\ UNCHANGED schedVars

StepSei ==
    /\ pc \in SeiLines
    /\ SREG_I' = TRUE
    /\ pc' = NextLine[pc]
    /\ UNCHANGED <<clockSelectBits, isrCallback, TCCR1A, TCCR1B, TIMSK1, TCNT1, OCR1A,
                   lastPeriod, lastCall, ocrAssigned, isrRan, pendingIsr, wrHalf, isrSawHalf>>
    /\ UNCHANGED schedVars

\* lines 70 and 76, first store instruction
StoreCallbackFirstByte ==
    /\ pc \in StoreLines
    /\ wrHalf = "none"
    /\ \E v \in HalfStored(isrCallback, pendingIsr) : isrCallback' = v
    /\ wrHalf' = "isrCallback"
    /\ UNCHANGED <<clockSelectBits, TCCR1A, TCCR1B, TIMSK1, TCNT1, OCR1A, SREG_I,
                   lastPeriod, lastCall, ocrAssigned, isrRan, pc, pendingIsr, isrSawHalf>>
    /\ UNCHANGED schedVars

\* lines 70 and 76, second store instruction
StoreCallbackSecondByte ==
    /\ pc \in StoreLines
    /\ wrHalf = "isrCallback"
    /\ isrCallback' = pendingIsr
    /\ wrHalf' = "none"
    /\ pc' = NextLine[pc]
    /\ UNCHANGED <<clockSelectBits, TCCR1A, TCCR1B, TIMSK1, TCNT1, OCR1A, SREG_I,
                   lastPeriod, lastCall, ocrAssigned, isrRan, pendingIsr, isrSawHalf>>
    /\ UNCHANGED schedVars

\* line 71: TIMSK1 |= _BV(OCIE1A);
Line71 ==
    /\ pc = "L71"
    /\ TIMSK1' = BitOr(TIMSK1, BV(OCIE1A))
    /\ pc' = NextLine[pc]
    /\ UNCHANGED <<clockSelectBits, isrCallback, TCCR1A, TCCR1B, TCNT1, OCR1A, SREG_I,
                   lastPeriod, lastCall, ocrAssigned, isrRan, pendingIsr, wrHalf, isrSawHalf>>
    /\ UNCHANGED schedVars

\* start, stop and the caller's own cli() / sei() are one statement each
IdleCall ==
    /\ pc = "idle"
    /\ start \/ stop \/ CallerCli \/ CallerSei

StepNext ==
    \/ Call_init
    \/ \E period \in StepPeriods : Call_setPeriod(period)
    \/ Call_reset
    \/ \E isr \in UserCallbacks : Call_attachInterrupt(isr)
    \/ Call_detachInterrupt
    \/ Line28
    \/ Line29
    \/ Line30_75
    \/ Line37
    \/ StepCli
    \/ WriteHighByte
    \/ WriteLowByte
    \/ StepSei
    \/ StoreCallbackFirstByte
    \/ StoreCallbackSecondByte
    \/ Line71
    \/ IdleCall
    \/ Timer1Count
    \/ TIMER1_COMPA_vect

(***************************************************************************)
(* Scheduler.  Task and Timer are classes of the sketch used through       *)
(* Task::updateAndCheckTime, Task::tick, Timer::setupPeriod and            *)
(* Timer::waitForNextTick.                                                 *)
(***************************************************************************)
MAX_TASKS == 10

BasePeriods == {1000, 2000}

NoTask == [myPeriod |-> 0, timeElapsed |-> 0, regPass |-> 0, fires |-> 0]

\* A task object as the application creates it right before registering it:
\* its period, no time elapsed; regPass and fires are history (the pass
\* count when it was handed to addTask, the number of tick() calls so far).
NewTask(period) == [myPeriod |-> period, timeElapsed |-> 0, regPass |-> pass, fires |-> 0]

TaskPeriods == {1000, 2000, 3000}

\* Task::updateAndCheckTime(basePeriod): the task after the call and the
\* value returned
updateAndCheckTime(t, bp) ==
    LET elapsed == t.timeElapsed + bp
    IN  IF elapsed >= t.myPeriod
        THEN [task |-> [t EXCEPT !.timeElapsed = 0], due |-> TRUE]
        ELSE [task |-> [t EXCEPT !.timeElapsed = elapsed], due |-> FALSE]

\* Task::tick(): the work of the task, seen here as one more invocation
tick(t) == [t EXCEPT !.fires = @ + 1]

\* variant of HasRoom: the whole table counted as usable
HasRoom_WholeTable(n) == n < MAX_TASKS

\* Scheduler.cpp line 16: the test of addTask
HasRoom(n) == n < MAX_TASKS - 1

\* variant of StoreTask: the new task put in front of the others
StoreTask_AtFront(list, n, task) == <<task>> \o list

\* variant of StoreTask: the new task put before the last registered one
StoreTask_BeforeLast(list, n, task) ==
    IF n = 0 THEN <<task>>
    ELSE SubSeq(list, 1, n - 1) \o <<task, list[n]>>

\* Scheduler.cpp line 17: taskList[nTasks] = task, on a table holding n tasks
StoreTask(list, n, task) ==
    [j \in 1..(n + 1) |-> IF j = n + 1 THEN task ELSE list[j]]

\* variant of InLoop: the loop stops one task early
InLoop_SkipsLast(i, n) == i < n - 1

\* Scheduler.cpp line 28: the test of the loop of schedule(), i counted from 0
InLoop(i, n) == i < n

\* variant of RunPass: tick() called without looking at the value returned
RECURSIVE RunPass_AlwaysTicks(_, _, _)
RunPass_AlwaysTicks(list, i, log) ==
    IF ~InLoop(i, nTasks) THEN [list |-> list, log |-> log]
    ELSE LET r == updateAndCheckTime(list[i + 1], basePeriod)
             logU == Append(log, <<"updateAndCheckTime", i, r.due>>)
         IN  RunPass_AlwaysTicks([list EXCEPT ![i + 1] = tick(r.task)], i + 1,
                                 Append(logU, <<"tick", i, TRUE>>))

\* variant of RunPass: the times are updated and tick() is never called
RECURSIVE RunPass_UpdatesOnly(_, _, _)
RunPass_UpdatesOnly(list, i, log) ==
    IF ~InLoop(i, nTasks) THEN [list |-> list, log |-> log]
    ELSE LET r == updateAndCheckTime(list[i + 1], basePeriod)
         IN  RunPass_UpdatesOnly([list EXCEPT ![i + 1] = r.task], i + 1,
                                 Append(log, <<"updateAndCheckTime", i, r.due>>))

\* variant of RunPass: the test of the value returned inverted
RECURSIVE RunPass_Inverted(_, _, _)
RunPass_Inverted(list, i, log) ==
    IF ~InLoop(i, nTasks) THEN [list |-> list, log |-> log]
    ELSE LET r == updateAndCheckTime(list[i + 1], basePeriod)
             logU == Append(log, <<"updateAndCheckTime", i, r.due>>)
         IN  IF ~r.due
             THEN RunPass_Inverted([list EXCEPT ![i + 1] = tick(r.task)], i + 1,
                                   Append(logU, <<"tick", i, TRUE>>))
             ELSE RunPass_Inverted([list EXCEPT ![i + 1] = r.task], i + 1, logU)

\* variant of RunPass: the table walked from its last task to its first
RECURSIVE RunPass_Backwards(_, _, _)
RunPass_Backwards(list, i, log) ==
    IF ~InLoop(i, nTasks) THEN [list |-> list, log |-> log]
    ELSE LET at == nTasks - 1 - i
             r == updateAndCheckTime(list[at + 1], basePeriod)
             logU == Append(log, <<"updateAndCheckTime", at, r.due>>)
         IN  IF r.due
             THEN RunPass_Backwards([list EXCEPT ![at + 1] = tick(r.task)], i + 1,
                                    Append(logU, <<"tick", at, TRUE>>))
             ELSE RunPass_Backwards([list EXCEPT ![at + 1] = r.task], i + 1, logU)

\* Scheduler.cpp lines 28-32: the loop of schedule() from index i (0-based),
\* on the table `list`; `log` collects the calls made on the tasks
RECURSIVE RunPass(_, _, _)
RunPass(list, i, log) ==
    IF ~InLoop(i, nTasks) THEN [list |-> list, log |-> log]
    ELSE LET r == updateAndCheckTime(list[i + 1], basePeriod)
             logU == Append(log, <<"updateAndCheckTime", i, r.due>>)
         IN  IF r.due
             THEN RunPass([list EXCEPT ![i + 1] = tick(r.task)], i + 1,
                          Append(logU, <<"tick", i, TRUE>>))
             ELSE RunPass([list EXCEPT ![i + 1] = r.task], i + 1, logU)

SchedCalled(op, ret) == [op |-> op, ret |-> ret]

\* variant of Scheduler_init: the count of registered tasks left as it was
Scheduler_init_KeepsTable(bp) ==
    /\ basePeriod' = bp
    /\ timerFlag' = FALSE
    /\ ticks' = 0
    /\ initialized' = TRUE
    /\ pass' = 0
    /\ passLog' = <<>>
    /\ addResult' = SchedCalled("init", "none")
    /\ rejected' = NoTask
    /\ UNCHANGED <<nTasks, taskList, lateAdds>>
    /\ UNCHANGED timerVars

Scheduler_init(bp) ==
    /\ basePeriod' = bp
    /\ timerFlag' = FALSE
    /\ ticks' = 0
    /\ nTasks' = 0
    /\ taskList' = <<>>
    /\ initialized' = TRUE
    /\ pass' = 0
    /\ passLog' = <<>>
    /\ addResult' = SchedCalled("init", "none")
    /\ rejected' = NoTask
    /\ UNCHANGED lateAdds
    /\ UNCHANGED timerVars

addTask(task) ==
    /\ initialized
    /\ pass = 0 \/ lateAdds < MaxLateAdds
    /\ task.myPeriod = 1000
         \/ Cardinality({ j \in 1..Len(taskList) : taskList[j].myPeriod # 1000 }) < MaxSlowTasks
    /\ IF HasRoom(nTasks)
       THEN /\ taskList' = StoreTask(taskList, nTasks, task)
            /\ nTasks' = nTasks + 1
            /\ addResult' = SchedCalled("addTask", TRUE)
            /\ UNCHANGED rejected
       ELSE /\ addResult' = SchedCalled("addTask", FALSE)
            /\ rejected' = task
            /\ UNCHANGED <<taskList, nTasks>>
    /\ lateAdds' = (IF pass = 0 THEN lateAdds ELSE lateAdds + 1)
    /\ UNCHANGED <<initialized, basePeriod, timerFlag, ticks, pass, passLog>>
    /\ UNCHANGED timerVars

\* variant of schedule: the pass made without waiting for the tick
schedule_NoWait ==
    /\ initialized
    /\ pass < MaxPasses
    /\ timerFlag' = FALSE
    /\ LET r == RunPass(taskList, 0, <<>>)
       IN  /\ taskList' = r.list
           /\ passLog' = r.log
    /\ pass' = pass + 1
    /\ addResult' = SchedCalled("schedule", "none")
    /\ UNCHANGED <<initialized, basePeriod, nTasks, ticks, rejected, lateAdds>>
    /\ UNCHANGED timerVars

schedule ==
    /\ initialized
    /\ pass < MaxPasses
    /\ timerFlag
    /\ timerFlag' = FALSE
    /\ LET r == RunPass(taskList, 0, <<>>)
       IN  /\ taskList' = r.list
           /\ passLog' = r.log
    /\ pass' = pass + 1
    /\ addResult' = SchedCalled("schedule", "none")
    /\ UNCHANGED <<initialized, basePeriod, nTasks, ticks, rejected, lateAdds>>
    /\ UNCHANGED timerVars

\* the interrupt of the scheduler's Timer: one base period has elapsed
TimerTick ==
    /\ initialized
    /\ ~timerFlag
    /\ timerFlag' = TRUE
    /\ ticks' = ticks + 1
    /\ UNCHANGED <<initialized, basePeriod, nTasks, taskList, pass, passLog, addResult,
                   rejected, lateAdds>>
    /\ UNCHANGED timerVars

SchedInit ==
    /\ initialized = FALSE
    /\ basePeriod = 0
    /\ nTasks = 0
    /\ taskList = <<>>
    /\ timerFlag = FALSE
    /\ ticks = 0
    /\ pass = 0
    /\ passLog = <<>>
    /\ addResult = SchedCalled("none", "none")
    /\ rejected = NoTask
    /\ lateAdds = 0

SchedNext ==
    \/ \E bp \in BasePeriods : Scheduler_init(bp)
    \/ \E period \in TaskPeriods : addTask(NewTask(period))
    \/ schedule
    \/ TimerTick

Init == TimerInit /\ SchedInit

TimerSpec == Init /\ [][TimerNext]_vars

SchedSpec == Init /\ [][SchedNext]_vars

StepSpec == Init /\ [][StepNext]_vars

(***************************************************************************)
(* The scheduler left to run for ever: init is called once, the Timer      *)
(* keeps signalling base ticks and the main loop keeps calling schedule(). *)
(* The histories that count passes, ticks and calls of tick() are not      *)
(* kept, so that the run has no end.                                       *)
(***************************************************************************)
LiveInit(bp) ==
    /\ ~initialized
    /\ Scheduler_init(bp)

\* tasks are registered before and between the passes, up to MaxLiveTasks
LiveAddTask(task) ==
    /\ nTasks < MaxLiveTasks
    /\ addTask(task)

\* schedule(), lines 25-33
LiveSchedule ==
    /\ initialized
    /\ timerFlag
    /\ timerFlag' = FALSE
    /\ LET r == RunPass(taskList, 0, <<>>)
       IN  /\ taskList' = [j \in 1..Len(r.list) |-> [r.list[j] EXCEPT !.fires = 0]]
           /\ passLog' = r.log
    /\ addResult' = SchedCalled("schedule", "none")
    /\ UNCHANGED <<initialized, basePeriod, nTasks, ticks, pass, rejected, lateAdds>>
    /\ UNCHANGED timerVars

\* the interrupt of the scheduler's Timer
LiveTick ==
    /\ initialized
    /\ ~timerFlag
    /\ timerFlag' = TRUE
    /\ UNCHANGED <<initialized, basePeriod, nTasks, taskList, ticks, pass, passLog,
                   addResult, rejected, lateAdds>>
    /\ UNCHANGED timerVars

LiveNext ==
    \/ \E bp \in BasePeriods : LiveInit(bp)
    \/ \E period \in TaskPeriods : LiveAddTask(NewTask(period))
    \/ LiveSchedule
    \/ LiveTick

\* the tick source keeps signalling and the main loop keeps calling
\* schedule(), each call of tick() returning
LiveSpec ==
    /\ Init
    /\ [][LiveNext]_vars
    /\ WF_vars(LiveTick)
    /\ WF_vars(LiveSchedule)

(***************************************************************************)
(* Claims about MiniTimerOne, checked under TimerSpec.                     *)
(***************************************************************************)
\* The clock-select code of a prescaler factor (ATmega328P, CS12:CS11:CS10).
SelectorOf(p) ==
    CASE p = 1 -> 1 [] p = 8 -> 2 [] p = 64 -> 3 [] p = 256 -> 4 [] p = 1024 -> 5

PrescalerTable == {1, 8, 64, 256, 1024}

\* The period of the last setPeriod call as a number; used only below 2^27,
\* where 16 * P is an exact integer.
PeriodValue == lastPeriod.hi * 65536 + lastPeriod.lo

SetPeriodCalled == lastPeriod # NoPeriod

\* P * 16 < 65536 * 1024
InPrescalerRange == SetPeriodCalled /\ lastPeriod.hi < 2048 /\ PeriodValue * 16 < 65536 * 1024

\* P * 16 >= 65536 * 1024, P any unsigned long
BeyondPrescalerRange == SetPeriodCalled /\ ~InPrescalerRange

\* C1: for every period P with P*16 < 65536*1024, setPeriod records the
\* clock-select bits of the smallest prescaler p of {1, 8, 64, 256, 1024}
\* with P*16 < 65536*p and sets the compare register to (P*16) div p.
C1_SmallestPrescaler ==
    InPrescalerRange =>
        \E p \in PrescalerTable :
            /\ PeriodValue * 16 < 65536 * p
            /\ \A q \in PrescalerTable : q < p => ~(PeriodValue * 16 < 65536 * q)
            /\ clockSelectBits = SelectorOf(p)
            /\ OCR1A = (PeriodValue * 16) \div p

\* a period that needs the prescaler 64 has been configured
C1_Witness ==
    /\ InPrescalerRange
    /\ PeriodValue = 32768
    /\ clockSelectBits = 3
    /\ OCR1A = 8192

\* C3 as stated: when setPeriod or reset returns, the global interrupt enable
\* bit is what it was when the method was entered.
C3_RestoresInterruptState ==
    lastCall.op \in {"setPeriod", "reset"} => SREG_I = lastCall.entryI

\* C3 as amended: when setPeriod or reset returns, the global interrupts are
\* enabled, whether or not they were enabled when the method was entered.
C3_EnablesInterruptsOnExit ==
    lastCall.op \in {"setPeriod", "reset"} => SREG_I = TRUE

\* setPeriod has returned after being entered with the interrupts disabled
C3_Witness ==
    /\ lastCall = [op |-> "setPeriod", entryI |-> FALSE]
    /\ SREG_I

\* C5: for every unsigned long period P with P*16 >= 65536*1024, setPeriod
\* sets the compare register to 65535 and records the clock-select bits of
\* the prescaler 1024.
C5_ClampsBeyondRange ==
    BeyondPrescalerRange => OCR1A = 65535 /\ clockSelectBits = SelectorOf(1024)

\* C6 as stated: the period 4096 (65536 cycles) selects the prescaler 1.
C6_BoundarySelectsPrescaler1 ==
    (SetPeriodCalled /\ lastPeriod = UL(0, 4096)) => clockSelectBits = SelectorOf(1)

\* C6 as amended: the period 4096 (65536 cycles) selects the prescaler 8,
\* with the compare value 8192; the prescaler 1 is selected up to 4095.
C6_BoundarySelectsPrescaler8 ==
    /\ (SetPeriodCalled /\ lastPeriod = UL(0, 4096)) =>
           clockSelectBits = SelectorOf(8) /\ OCR1A = 8192
    /\ (SetPeriodCalled /\ lastPeriod = UL(0, 4095)) =>
           clockSelectBits = SelectorOf(1) /\ OCR1A = 65520

\* setPeriod(4096) has been called
C6_Witness == SetPeriodCalled /\ lastPeriod = UL(0, 4096) /\ lastCall.op = "setPeriod"

\* C10: after any setPeriod call, whatever the period, the value last
\* assigned to the compare register is at most 65535 (it is the value the 16
\* bit register holds) and the clock-select bits are one of the 5 selectors.
C10_CompareFitsCounter ==
    SetPeriodCalled =>
        /\ ocrAssigned.hi = 0
        /\ ocrAssigned.lo <= 65535
        /\ OCR1A = ocrAssigned.lo
        /\ clockSelectBits \in { SelectorOf(p) : p \in PrescalerTable }

\* setPeriod has been called with a period whose cycle count wraps around
C10_Witness ==
    /\ SetPeriodCalled
    /\ lastPeriod.hi >= 4096
    /\ lastCall.op = "setPeriod"

(***************************************************************************)
(* Claims about Scheduler, checked under SchedSpec.                        *)
(***************************************************************************)
Usable == MAX_TASKS - 1

LastWasSchedule == addResult.op = "schedule"

\* tick() of the task at table index i (0-based) was called in the last pass
TickedInLastPass(i) ==
    \E j \in 1..Len(passLog) : passLog[j][1] = "tick" /\ passLog[j][2] = i

\* positions of the log holding a call of the given name
LogPositions(name) == { j \in 1..Len(passLog) : passLog[j][1] = name }

\* C2: a registered task whose period is k base periods (k >= 1) has its
\* tick() called on exactly the passes k, 2k, 3k, ... after its registration:
\* after a passes it has fired a div k times, and the pass just completed
\* fired it iff a is a multiple of k.
C2_FiresEveryKthPass ==
    initialized =>
        \A i \in 1..nTasks :
            LET t == taskList[i]
                k == t.myPeriod \div basePeriod
                a == pass - t.regPass
            IN  (k >= 1 /\ t.myPeriod = k * basePeriod) =>
                    /\ a >= 0
                    /\ t.fires = a \div k
                    /\ (LastWasSchedule /\ a >= 1) => (TickedInLastPass(i - 1) <=> a % k = 0)

\* a task of 3 base periods, registered after passes had run, has fired twice
C2_Witness ==
    /\ initialized
    /\ \E i \in 1..nTasks :
          /\ taskList[i].myPeriod = 3 * basePeriod
          /\ taskList[i].regPass >= 1
          /\ taskList[i].fires = 2
          /\ pass - taskList[i].regPass = 6

\* C4: with 9 tasks registered, addTask returns false and leaves the count
\* and the sequence of registered tasks as they were; no pass ever touches a
\* tenth task.
C4_FullTableRejects ==
    /\ [][\A p \in TaskPeriods :
            (nTasks = Usable /\ addTask(NewTask(p))) =>
                /\ addResult'.ret = FALSE
                /\ nTasks' = nTasks
                /\ taskList' = taskList]_vars
    /\ [](\A j \in 1..Len(passLog) : passLog[j][2] \in 0..(Usable - 1))
    /\ [](rejected.timeElapsed = 0 /\ rejected.fires = 0)

\* a task was refused by a full table and a pass has run since
C4_Witness ==
    /\ nTasks = Usable
    /\ rejected # NoTask
    /\ LastWasSchedule
    /\ Len(passLog) >= Usable

\* C7: a pass calls updateAndCheckTime exactly once on every registered
\* task, in registration order; tick() of a task is called iff its
\* updateAndCheckTime returned true, and right after it, before any call on
\* the next task.
C7_PassOrder ==
    LastWasSchedule =>
        /\ \A i \in 0..(nTasks - 1) :
              Cardinality({ j \in LogPositions("updateAndCheckTime") : passLog[j][2] = i }) = 1
        /\ \A j \in LogPositions("updateAndCheckTime") : passLog[j][2] \in 0..(nTasks - 1)
        /\ \A j1, j2 \in LogPositions("updateAndCheckTime") :
              j1 < j2 => passLog[j1][2] < passLog[j2][2]
        /\ \A j \in LogPositions("tick") :
              j > 1 /\ passLog[j - 1] = <<"updateAndCheckTime", passLog[j][2], TRUE>>
        /\ \A j \in LogPositions("updateAndCheckTime") :
              passLog[j][3] => (j < Len(passLog) /\ passLog[j + 1] = <<"tick", passLog[j][2], TRUE>>)

\* a pass over at least 3 tasks in which a task that was not due precedes
\* one that fired
C7_Witness ==
    /\ LastWasSchedule
    /\ nTasks >= 3
    /\ \E j1, j2 \in LogPositions("updateAndCheckTime") :
          j1 < j2 /\ ~passLog[j1][3] /\ passLog[j2][3]

\* C8: once init has been called the number of registered tasks is between
\* 0 and 9 and the table is never exceeded; addTask returns true exactly
\* when fewer than 9 tasks were registered, and then the task is the last of
\* the sequence and every earlier task keeps its position.
C8_BoundedTable ==
    /\ [](initialized => (nTasks \in 0..Usable /\ Len(taskList) = nTasks /\ nTasks <= MAX_TASKS))
    /\ [][\A p \in TaskPeriods :
            addTask(NewTask(p)) =>
                /\ addResult'.ret = (nTasks < Usable)
                /\ addResult'.ret = TRUE =>
                      /\ nTasks' = nTasks + 1
                      /\ Len(taskList') = nTasks'
                      /\ taskList'[nTasks'] = NewTask(p)
                      /\ \A j \in 1..nTasks : taskList'[j] = taskList[j]]_vars

\* the ninth task has just been accepted
C8_Witness ==
    /\ addResult = [op |-> "addTask", ret |-> TRUE]
    /\ nTasks = Usable

\* the scenario of C9: base period 1000, task A (1 tick) and then task B
\* (3 ticks) registered before the first pass, no other task
C9_Scenario ==
    /\ initialized
    /\ basePeriod = 1000
    /\ nTasks = 2
    /\ taskList[1].myPeriod = 1000 /\ taskList[1].regPass = 0
    /\ taskList[2].myPeriod = 3000 /\ taskList[2].regPass = 0

\* C9: in that scenario, up to nine passes, A.tick() has run once per pass,
\* B.tick() has run on the passes 3, 6 and 9 only, and in a pass where both
\* run A.tick() runs before B.tick().
C9_OneAndThreeTicks ==
    (C9_Scenario /\ pass <= 9) =>
        /\ taskList[1].fires = pass
        /\ taskList[2].fires = pass \div 3
        /\ (LastWasSchedule /\ pass >= 1) =>
              /\ TickedInLastPass(0)
              /\ TickedInLastPass(1) <=> pass \in {3, 6, 9}
              /\ \A ja, jb \in LogPositions("tick") :
                    (passLog[ja][2] = 0 /\ passLog[jb][2] = 1) => ja < jb

\* the ninth pass of the scenario has completed
C9_Witness ==
    /\ C9_Scenario
    /\ pass = 9
    /\ LastWasSchedule
    /\ taskList[1].fires = 9
    /\ taskList[2].fires = 3

(***************************************************************************)
(* Further claims about MiniTimerOne, checked under TimerSpec.             *)
(***************************************************************************)
\* the state of the timer object and of its registers (the history left out)
timerState == <<clockSelectBits, isrCallback, TCCR1A, TCCR1B, TIMSK1, TCNT1, OCR1A, SREG_I>>

\* C11: a freshly constructed timer returns the no-op callback; after
\* attachInterrupt(fn) getCallback() returns fn and the compare-match
\* interrupt is enabled, and attachInterrupt(fn) repeated changes nothing;
\* after detachInterrupt() getCallback() returns the no-op callback and the
\* interrupt is disabled, and detachInterrupt() repeated changes nothing.
C11_AttachDetachIdempotent ==
    /\ getCallback = emptyCallback
    /\ [][\A fn \in UserCallbacks :
            attachInterrupt(fn) =>
                /\ getCallback' = fn
                /\ CompareIrqEnabled'
                /\ (getCallback = fn /\ CompareIrqEnabled) => timerState' = timerState]_vars
    /\ [][detachInterrupt =>
            /\ getCallback' = emptyCallback
            /\ ~CompareIrqEnabled'
            /\ (getCallback = emptyCallback /\ ~CompareIrqEnabled) => timerState' = timerState]_vars

\* a callback is attached and has been run by a compare-match interrupt
C11_Witness ==
    /\ getCallback = "isrB"
    /\ CompareIrqEnabled
    /\ isrRan = "isrB"

\* C12: after start() the prescaler-select bits of TCCR1B are exactly the
\* bits computed by the most recent setPeriod, also when start() is called
\* again after a new setPeriod without a stop(); after stop() they are all
\* clear and the mode bit WGM12 is set.
C12_StartLoadsLatestBits ==
    [][/\ (start /\ SetPeriodCalled) => TCCR1B' % 8 = clockSelectBits
       /\ stop => (TCCR1B' % 8 = 0 /\ (TCCR1B' \div BV(WGM12)) % 2 = 1)]_vars

(***************************************************************************)
(* Further claims about Scheduler, checked under SchedSpec.                *)
(***************************************************************************)
\* C13: after every completed pass a registered task that did not fire has
\* 0 <= timeElapsed < myPeriod and one that fired has timeElapsed = 0; a
\* pass resets timeElapsed to 0 only for the tasks it fires (the others
\* gain one base period), and myPeriod never changes.
C13_ElapsedBelowPeriod ==
    /\ [](initialized =>
            \A i \in 1..nTasks :
                /\ 0 <= taskList[i].timeElapsed
                /\ taskList[i].timeElapsed < taskList[i].myPeriod
                /\ (LastWasSchedule /\ TickedInLastPass(i - 1)) => taskList[i].timeElapsed = 0)
    /\ [][schedule =>
            \A i \in 1..nTasks :
                /\ taskList'[i].myPeriod = taskList[i].myPeriod
                /\ IF \E j \in 1..Len(passLog') : passLog'[j] = <<"tick", i - 1, TRUE>>
                   THEN taskList'[i].timeElapsed = 0
                   ELSE taskList'[i].timeElapsed = taskList[i].timeElapsed + basePeriod]_vars
    /\ [][\A i \in 1..nTasks :
            i <= nTasks' => taskList'[i].myPeriod = taskList[i].myPeriod]_vars

\* a pass has left one task part-way through its period and fired another
C13_Witness ==
    /\ LastWasSchedule
    /\ \E i, j \in 1..nTasks :
          /\ ~TickedInLastPass(i - 1)
          /\ taskList[i].timeElapsed > 0
          /\ taskList[i].timeElapsed < taskList[i].myPeriod
          /\ TickedInLastPass(j - 1)
          /\ taskList[j].timeElapsed = 0

\* C14: schedule() calls no updateAndCheckTime and no tick() before the tick
\* source has signalled a base tick; each call consumes one signal and makes
\* one pass, so the passes completed never exceed the ticks signalled.
C14_PassNeedsTick ==
    /\ [](pass <= ticks)
    /\ [][(pass' > pass \/ (passLog' # passLog /\ passLog' # <<>>)) =>
            (timerFlag /\ ~timerFlag' /\ ticks' = ticks /\ pass' = pass + 1)]_vars

\* passes have been made, each after its own tick
C14_Witness ==
    /\ pass = 3
    /\ ticks = 3
    /\ LastWasSchedule
    /\ Len(passLog) >= 2

\* C17: init(basePeriod) leaves an empty task table and the given base
\* period, also when tasks were registered and passes were run before it;
\* a pass over the empty table evaluates and fires no task, and no addTask
\* is refused before 9 tasks have been registered since the init.
C17_InitClearsTable ==
    /\ [][\A bp \in BasePeriods :
            Scheduler_init(bp) =>
                /\ initialized'
                /\ basePeriod' = bp
                /\ nTasks' = 0
                /\ taskList' = <<>>]_vars
    /\ []((initialized /\ nTasks = 0 /\ LastWasSchedule) => passLog = <<>>)
    /\ []((initialized /\ addResult = SchedCalled("addTask", FALSE)) => nTasks = Usable)
    /\ [][(initialized /\ nTasks < Usable /\ addResult'.op = "addTask" /\ addResult' # addResult)
            => nTasks' = nTasks + 1]_vars

\* init was called again after a task had been added between passes, and a
\* pass has then run over the empty table
C17_Witness ==
    /\ initialized
    /\ lateAdds >= 1
    /\ nTasks = 0
    /\ pass >= 1
    /\ LastWasSchedule
    /\ passLog = <<>>

\* a task registered after at least one pass had been made
LateTask(i) == i \in 1..nTasks /\ taskList[i].regPass >= 1

\* C18: a task added between two passes is evaluated from the very next pass
\* on, after every task registered before it; adding it leaves the earlier
\* tasks as they were, and in each pass every task advances from its own
\* elapsed time alone, so the passes on which the earlier tasks fire are
\* those they would fire on without the new task.
C18_LateAddTakesEffect ==
    /\ [][\A p \in TaskPeriods :
            (addTask(NewTask(p)) /\ pass >= 1 /\ nTasks' = nTasks + 1) =>
                /\ taskList'[nTasks'].regPass = pass
                /\ \A j \in 1..nTasks :
                      /\ taskList'[j].timeElapsed = taskList[j].timeElapsed
                      /\ taskList'[j].fires = taskList[j].fires]_vars
    /\ [](\A i \in 1..nTasks :
            (LateTask(i) /\ LastWasSchedule /\ pass > taskList[i].regPass) =>
                \E at \in LogPositions("updateAndCheckTime") :
                    /\ passLog[at][2] = i - 1
                    /\ \A j \in 1..Len(passLog) : passLog[j][2] < i - 1 => j < at)
    /\ [][schedule =>
            \A i \in 1..nTasks :
                LET r == updateAndCheckTime(taskList[i], basePeriod)
                IN  taskList'[i] = (IF r.due THEN tick(r.task) ELSE r.task)]_vars

\* the pass right after a late registration: the new task, last of the
\* table, has been evaluated and an earlier task has fired in the same pass
C18_Witness ==
    /\ LastWasSchedule
    /\ nTasks >= 2
    /\ LateTask(nTasks)
    /\ pass = taskList[nTasks].regPass + 1
    /\ \E at \in LogPositions("updateAndCheckTime") : passLog[at][2] = nTasks - 1
    /\ TickedInLastPass(0)
    /\ taskList[1].regPass = 0

(***************************************************************************)
(* Further claims about MiniTimerOne, checked under TimerSpec.             *)
(***************************************************************************)
\* the step is a call of setPeriod: it ends with setPeriod as the last call
\* and changes something only setPeriod writes or records (the hardware
\* steps that may follow a call change none of these)
SetPeriodStep ==
    /\ lastCall'.op = "setPeriod"
    /\ <<lastCall, lastPeriod, clockSelectBits, OCR1A, ocrAssigned>>'
          # <<lastCall, lastPeriod, clockSelectBits, OCR1A, ocrAssigned>>

\* C19 as stated: setPeriod changes the stored clock-select bits and the
\* compare register and nothing else: TCCR1A, TCCR1B, the counter, the
\* callback, the interrupt mask TIMSK1 and the global interrupt enable bit
\* are what they were before the call.
C19_ChangesNothingElse ==
    [][SetPeriodStep =>
          UNCHANGED <<TCCR1A, TCCR1B, TCNT1, isrCallback, TIMSK1, SREG_I>>]_vars

\* C19 as amended: setPeriod changes the stored clock-select bits and the
\* compare register and leaves TCCR1A, TCCR1B (so the counter keeps running
\* or stays stopped), the counter, the callback and TIMSK1 as they were; the
\* one other thing it changes is the global interrupt enable bit, set on exit.
C19_TimerFrame ==
    [][SetPeriodStep =>
          /\ UNCHANGED <<TCCR1A, TCCR1B, TCNT1, isrCallback, TIMSK1>>
          /\ TimerRunning' = TimerRunning
          /\ CompareIrqEnabled' = CompareIrqEnabled
          /\ SREG_I']_vars

\* setPeriod has returned, entered with the interrupts disabled on a stopped
\* timer whose counter had advanced and whose callback was attached: new
\* clock-select bits are stored and the clock source is still off
C19_Witness ==
    /\ lastCall = [op |-> "setPeriod", entryI |-> FALSE]
    /\ clockSelectBits # 0
    /\ ~TimerRunning
    /\ TCNT1 # 0
    /\ getCallback \in UserCallbacks
    /\ CompareIrqEnabled

(***************************************************************************)
(* Claims about MiniTimerOne against the interrupt, checked under StepSpec.*)
(***************************************************************************)
\* the 16 bit registers of Timer1 written by init, setPeriod and reset
WideRegisters == {"TCNT1", "OCR1A"}

\* C15: in every interleaving of init, setPeriod and reset with the
\* compare-match interrupt, each byte written to TCNT1 or OCR1A is written
\* with the global interrupts disabled, the interrupts stay disabled while a
\* register is half written, and no interrupt runs between the two halves.
C15_WritesInsideCriticalSection ==
    /\ [][(wrHalf' # wrHalf /\ (wrHalf \in WideRegisters \/ wrHalf' \in WideRegisters))
            => (~SREG_I /\ ~SREG_I')]_vars
    /\ [](wrHalf \in WideRegisters => ~SREG_I)
    /\ [](isrSawHalf \notin WideRegisters)

\* setPeriod, entered with the interrupts enabled on a running timer whose
\* interrupt has already been served, has written the first half of OCR1A
C15_Witness ==
    /\ pc = "L52"
    /\ wrHalf = "OCR1A"
    /\ lastCall = [op |-> "setPeriod", entryI |-> TRUE]
    /\ TimerRunning
    /\ CompareIrqEnabled
    /\ isrRan \in UserCallbacks
    /\ ~SREG_I

\* C16: in every interleaving of the steps of attachInterrupt and
\* detachInterrupt with the compare-match interrupt, what the handler calls
\* is a callback stored in the timer: the no-op of the constructor and of
\* detachInterrupt, or a function given to attachInterrupt.
C16_RunsStoredCallback ==
    isrRan \in ({"none", emptyCallback} \cup UserCallbacks)

(***************************************************************************)
(* Progress of the scheduler, checked under LiveSpec.                      *)
(***************************************************************************)
\* C20: while the tick source keeps signalling and every tick() returns, a
\* schedule() call waiting for its tick gets it and the pass it then makes
\* completes, and every registered task (all periods are positive) has its
\* tick() called again and again: ticks and passes keep alternating, and
\* whenever the task is registered and the last pass did not fire it, a
\* later pass does.
C20_EveryTaskKeepsFiring ==
    /\ [](initialized => <>timerFlag)
    /\ [](timerFlag => <>(~timerFlag /\ LastWasSchedule))
    /\ \A i \in 1..MaxLiveTasks :
          []((initialized /\ nTasks >= i) => <>(LastWasSchedule /\ TickedInLastPass(i - 1)))

\* in the endless run a task of three base periods, registered second, has
\* just fired
C20_Witness ==
    /\ LastWasSchedule
    /\ pass = 0
    /\ basePeriod = 1000
    /\ nTasks >= 2
    /\ taskList[2].myPeriod = 3000
    /\ TickedInLastPass(1)
    /\ ~TickedInLastPass(0) \/ taskList[1].myPeriod = 1000

====
